---- MODULE Spec2Model ----
(***************************************************************************)
(* Model of kishorpandya2210/FinancialAnalysis:                            *)
(*   backend/index_data.py  the batch indexer (ledgers, process_stock,     *)
(*                          parallel_process_stocks, get_company_tickers)  *)
(*   backend/main.py        the query service (research)                   *)
(*                                                                         *)
(* Three specifications share the module:                                  *)
(*   Spec          runs of the indexer, restarted after each process exit  *)
(*   SpecNormalize get_stock_info + the metadata loop of process_stock     *)
(*   SpecResearch  the POST /research handler against a gateway stub       *)
(***************************************************************************)
EXTENDS Integers, Sequences, FiniteSets, TLC

\* ------------------------------------------------------------------ bounds
MaxRuns == 2          \* process runs of index_data.py that are modelled
MaxTickers == 2       \* longest identifier list a catalog delivers
MaxPool == 2          \* largest max_workers a run is started with
MaxTotal == 3         \* identifiers submitted over all runs together
MaxAttrs == 1         \* attributes present in a provider mapping
MaxListLen == 1       \* longest list among the provider's attribute values
MaxMatches == 5       \* documents the index can rank for a query
MaxK == 3             \* largest k a request names
MaxRequests == 2      \* requests the service is sent

\* ------------------------------------------------------------ text helpers
NL == "\n"
SP == " "
Whitespace == {NL, SP}

\* Identifiers are sequences of text units: a unit is one character, or the
\* five characters ERROR taken together. "ERRORB" shares a prefix with "ERROR"
\* so that a torn or merged ledger line reads back as a different identifier,
\* and both begin with the word the main loop looks for in a result.
TickerUniverse == { <<"ERROR">>, <<"ERROR", "B">> }

RECURSIVE LStrip(_)
LStrip(s) ==
    IF s # <<>> /\ Head(s) \in Whitespace THEN LStrip(Tail(s)) ELSE s

RECURSIVE RStrip(_)
RStrip(s) ==
    IF s # <<>> /\ s[Len(s)] \in Whitespace
    THEN RStrip(SubSeq(s, 1, Len(s) - 1))
    ELSE s

\* str.strip()
Strip(s) == LStrip(RStrip(s))

\* Iterating a text file: the lines of the content, each with its terminator,
\* the last one possibly without.
RECURSIVE FileLines(_, _)
FileLines(content, cur) ==
    IF content = <<>>
    THEN IF cur = <<>> THEN <<>> ELSE <<cur>>
    ELSE IF Head(content) = NL
         THEN <<Append(cur, NL)>> \o FileLines(Tail(content), <<>>)
         ELSE FileLines(Tail(content), Append(cur, Head(content)))

RECURSIVE StripNonEmpty(_)
StripNonEmpty(lines) ==
    IF lines = <<>> THEN <<>>
    ELSE IF Strip(Head(lines)) # <<>>
         THEN <<Strip(Head(lines))>> \o StripNonEmpty(Tail(lines))
         ELSE StripNonEmpty(Tail(lines))

\* load_tickers(file_path); a missing file is the empty content and gives [].
load_tickers_Unstripped(content) == FileLines(content, <<>>)
load_tickers(content) == StripNonEmpty(FileLines(content, <<>>))

\* f"{stock_ticker}\n"
LedgerLine_SameForAll(t) == <<"ERROR", NL>>
LedgerLine(t) == Append(t, NL)

\* open(path, 'a'), write(buf), close()
FileAppend_Truncating(content, buf) == buf
FileAppend(content, buf) == content \o buf

Range(s) == { s[i] : i \in 1..Len(s) }
HasDuplicates(s) == \E i, j \in 1..Len(s) : i # j /\ s[i] = s[j]
Count(s, x) == Cardinality({ i \in 1..Len(s) : s[i] = x })

\* --------------------------------------------------------------- variables
VARIABLES
    \* indexer: durable state
    successful_file,        \* content of successful_tickers.txt
    unsuccessful_file,      \* content of unsuccessful_tickers.txt
    catalog_file,           \* content of company_tickers.json (<<>> = never written)
    \* indexer: process state
    successful_tickers,     \* module-level list
    unsuccessful_tickers,   \* module-level list
    mainpc,                 \* position of the main thread
    exit_status,            \* 0 or 1 once the process has exited, -1 before
    tickers,                \* argument of parallel_process_stocks
    max_workers,            \* argument of parallel_process_stocks
    submitted,              \* number of executor.submit calls made
    work_queue,             \* task indices waiting in the executor's queue
    shutdown_called,        \* executor.shutdown(wait=False) has run
    task,                   \* task index -> record of the process_stock call
    seen,                   \* task indices whose future the main loop has consumed
    \* indexer: history
    run,                    \* number of the current process run
    file_at_boot,           \* ledger file contents when this run was started
    stored,                 \* identifier -> number of completed add_documents, all runs
    aborted_prev,           \* the previous run ended by the fail-fast abort
    total,                  \* number of identifiers submitted, all runs
    http_status,            \* status of this run's catalog response, 0 before it
    dup_ever,               \* some run was given a list that names an identifier twice
    \* normalization
    info,                   \* data.info, the provider's attribute mapping
    stock_data,             \* the properties dict, then the document's metadata
    stock_description,      \* page_content of the document
    npc,                    \* position in process_stock lines 82-97
    \* query service
    ranked,                 \* the gateway's matches for the query, best first
    search,                 \* the SearchRequest being handled
    rpc,                    \* position of the request handler
    response,               \* what the last finished request was answered with
    gateway_calls,          \* similarity_search calls made for the current request
    served,                 \* number of requests answered
    exc,                    \* str(e) of the exception the try block caught, "" if none
    failures                \* number of requests whose try block raised

ivars == << successful_file, unsuccessful_file, catalog_file,
            successful_tickers, unsuccessful_tickers, mainpc, exit_status,
            tickers, max_workers, submitted, work_queue, shutdown_called,
            task, seen, run, file_at_boot, stored, aborted_prev,
            total, http_status, dup_ever >>

nvars == << info, stock_data, stock_description, npc >>

rvars == << ranked, search, rpc, response, gateway_calls, served,
           exc, failures >>

vars == << ivars, nvars, rvars >>

\* ------------------------------------------------------- indexer: helpers
Catalogs == UNION { [1..n -> TickerUniverse] : n \in 0..MaxTickers }

HttpStatuses == {200, 404, 500}

\* str(e) of the exception a provider fetch or a store call raises
FetchErrors == { "fetch failed" }
StoreErrors == { "store failed" }

NoTask == [ ticker |-> <<>>, pc |-> "queued", outcome |-> "none",
            result |-> <<>>, after_abort |-> FALSE,
            fetched |-> FALSE, add_called |-> FALSE, added |-> FALSE,
            err |-> "",
            lineS |-> FALSE, lineU |-> FALSE, memS |-> FALSE, memU |-> FALSE ]

\* the three return values of process_stock, each fixed piece of text kept as
\* one unit
SkippedResult(t) == <<"Already processed ">> \o t
SuccessResult(t) == <<"Processed ">> \o t \o <<" successfully">>
ErrorResult(t, e) == <<"ERROR", " processing ">> \o t \o <<": ", e>>

\* result.startswith("ERROR"): no unit other than "ERROR" begins with it
StartsWithERROR(result) == Len(result) >= 1 /\ result[1] = "ERROR"

\* stock_ticker in successful_tickers
AlreadyProcessed_Never(t) == FALSE
AlreadyProcessed_InEitherLedger(t) ==
    t \in Range(successful_tickers) \cup Range(unsuccessful_tickers)
AlreadyProcessed(t) == t \in Range(successful_tickers)

Tasks == 1..submitted
\* the calls a worker thread is running; the threads are interchangeable
Busy == { i \in DOMAIN task : task[i].pc \notin {"queued", "done"} }
Finished(i) == task[i].pc = "done"

\* ------------------------------------------------------------ indexer: Init
\* The first process has not been started; no ledger file exists yet.
InitIndexer ==
    /\ successful_file = <<>>
    /\ unsuccessful_file = <<>>
    /\ catalog_file = [written |-> FALSE, data |-> <<>>]
    /\ successful_tickers = <<>>
    /\ unsuccessful_tickers = <<>>
    /\ mainpc = "boot"
    /\ exit_status = -1
    /\ tickers = <<>>
    /\ max_workers = 1
    /\ submitted = 0
    /\ work_queue = <<>>
    /\ shutdown_called = FALSE
    /\ task = <<>>
    /\ seen = {}
    /\ run = 1
    /\ file_at_boot = [S |-> <<>>, U |-> <<>>,
                       C |-> [written |-> FALSE, data |-> <<>>]]
    /\ stored = [t \in TickerUniverse |-> 0]
    /\ aborted_prev = FALSE
    /\ total = 0
    /\ http_status = 0
    /\ dup_ever = FALSE

\* ---------------------------------------------------- indexer: main thread
\* what the worker threads leave alone, and what the main thread leaves alone
mainOwned == << catalog_file, mainpc, exit_status, tickers, max_workers,
                submitted, shutdown_called, seen, run, file_at_boot,
                aborted_prev, total, http_status, dup_ever >>
ledgers == << successful_file, unsuccessful_file, successful_tickers,
              unsuccessful_tickers >>

\* Module import: the two lists are bound to [] and then to the files' lines.
LoadLedgers ==
    /\ mainpc = "boot"
    /\ successful_tickers' = load_tickers(successful_file)
    /\ unsuccessful_tickers' = load_tickers(unsuccessful_file)
    /\ file_at_boot' = [S |-> successful_file, U |-> unsuccessful_file,
                        C |-> catalog_file]
    /\ mainpc' = "main"
    /\ UNCHANGED << successful_file, unsuccessful_file, catalog_file,
                    exit_status, tickers, max_workers, submitted, work_queue,
                    shutdown_called, task, seen, run, stored, aborted_prev,
                    total, http_status, dup_ever >>
    /\ UNCHANGED << nvars, rvars >>

\* get_company_tickers(): the parsed catalog on status 200, None otherwise.
\* A catalog is given by the ticker of each of its values, in order.
get_company_tickers_AnyStatus(status, body) ==
    [ret |-> [none |-> FALSE, data |-> body],
     file |-> [written |-> TRUE, data |-> body]]
get_company_tickers(status, body) ==
    IF status = 200
    THEN [ret |-> [none |-> FALSE, data |-> body],
          file |-> [written |-> TRUE, data |-> body]]
    ELSE [ret |-> [none |-> TRUE, data |-> <<>>],
          file |-> catalog_file]

\* `if company_tickers:` None and the empty mapping are both falsy
Truthy(ret) == ~ret.none /\ ret.data # <<>>

\* The __main__ block up to the creation of the executor. On a falsy catalog the
\* block is over and the process ends with status 0.
MainBlock ==
    /\ mainpc = "main"
    /\ \E status \in HttpStatuses, body \in Catalogs, mw \in 1..MaxPool :
          LET r == get_company_tickers(status, body) IN
          /\ total + Len(body) <= MaxTotal
          /\ catalog_file' = r.file
          /\ http_status' = status
          /\ IF Truthy(r.ret)
             THEN /\ tickers' = r.ret.data
                  /\ dup_ever' = (dup_ever \/ HasDuplicates(r.ret.data))
                  /\ max_workers' = mw
                  /\ mainpc' = "submit"
                  /\ UNCHANGED exit_status
             ELSE /\ mainpc' = "exited"
                  /\ exit_status' = 0
                  /\ UNCHANGED << tickers, max_workers, dup_ever >>
    /\ UNCHANGED << ledgers, submitted, work_queue, shutdown_called, task,
                    seen, run, file_at_boot, stored, aborted_prev, total >>
    /\ UNCHANGED << nvars, rvars >>

\* One executor.submit(process_stock, ticker) of the dict comprehension.
Submit ==
    /\ mainpc = "submit"
    /\ submitted < Len(tickers)
    /\ submitted' = submitted + 1
    /\ total' = total + 1
    /\ task' = Append(task, [NoTask EXCEPT !.ticker = tickers[submitted + 1]])
    /\ work_queue' = Append(work_queue, submitted + 1)
    /\ UNCHANGED << ledgers, catalog_file, mainpc, exit_status, tickers,
                    max_workers, shutdown_called, seen, run, file_at_boot,
                    stored, aborted_prev, http_status, dup_ever >>
    /\ UNCHANGED << nvars, rvars >>

\* The comprehension is complete; the as_completed loop starts.
SubmitDone ==
    /\ mainpc = "submit"
    /\ submitted = Len(tickers)
    /\ mainpc' = "collect"
    /\ UNCHANGED << ledgers, catalog_file, exit_status, tickers, max_workers,
                    submitted, work_queue, shutdown_called, task, seen, run,
                    file_at_boot, stored, aborted_prev, total, http_status,
                    dup_ever >>
    /\ UNCHANGED << nvars, rvars >>

\* One iteration of the as_completed loop on a finished future. An ERROR result
\* calls executor.shutdown(wait=False) and raises SystemExit(1); SystemExit is
\* no Exception, so the except clause lets it through to the with statement.
AbortOn_Never(result) == FALSE
AbortOn_Contains(result) == \E k \in 1..Len(result) : result[k] = "ERROR"
AbortOn(result) == StartsWithERROR(result)

Collect ==
    /\ mainpc = "collect"
    /\ \E i \in Tasks \ seen :
          /\ Finished(i)
          /\ seen' = seen \cup {i}
          /\ IF AbortOn(task[i].result)
             THEN /\ shutdown_called' = TRUE
                  /\ mainpc' = "unwind"
             ELSE UNCHANGED << shutdown_called, mainpc >>
    /\ UNCHANGED << ledgers, catalog_file, exit_status, tickers, max_workers,
                    submitted, work_queue, task, run, file_at_boot, stored,
                    aborted_prev, total, http_status, dup_ever >>
    /\ UNCHANGED << nvars, rvars >>

\* The loop is exhausted: the with statement's exit joins the (idle) workers,
\* parallel_process_stocks returns and the process ends with status 0.
ReturnNormally ==
    /\ mainpc = "collect"
    /\ seen = Tasks
    /\ mainpc' = "exited"
    /\ exit_status' = 0
    /\ UNCHANGED << ledgers, catalog_file, tickers, max_workers, submitted,
                    work_queue, shutdown_called, task, seen, run, file_at_boot,
                    stored, aborted_prev, total, http_status, dup_ever >>
    /\ UNCHANGED << nvars, rvars >>

\* SystemExit(1) leaves the with statement: its exit is shutdown(wait=True),
\* which joins the worker threads; they end when the queue has been drained.
ExitJoined_NoWait == TRUE
ExitJoined == work_queue = <<>> /\ Busy = {}

ExitOnError ==
    /\ mainpc = "unwind"
    /\ ExitJoined
    /\ mainpc' = "exited"
    /\ exit_status' = 1
    /\ UNCHANGED << ledgers, catalog_file, tickers, max_workers, submitted,
                    work_queue, shutdown_called, task, seen, run, file_at_boot,
                    stored, aborted_prev, total, http_status, dup_ever >>
    /\ UNCHANGED << nvars, rvars >>

\* The operator starts index_data.py again; only the files survive.
Restart ==
    /\ mainpc = "exited"
    /\ run < MaxRuns
    /\ run' = run + 1
    /\ aborted_prev' = (exit_status = 1)
    /\ mainpc' = "boot"
    /\ exit_status' = -1
    /\ http_status' = 0
    /\ successful_tickers' = <<>>
    /\ unsuccessful_tickers' = <<>>
    /\ tickers' = <<>>
    /\ max_workers' = 1
    /\ submitted' = 0
    /\ work_queue' = <<>>
    /\ shutdown_called' = FALSE
    /\ task' = <<>>
    /\ seen' = {}
    /\ UNCHANGED << successful_file, unsuccessful_file, catalog_file,
                    file_at_boot, stored, total, dup_ever >>
    /\ UNCHANGED << nvars, rvars >>

\* ------------------------------------------------- indexer: worker threads
\* The worker threads are interchangeable: what matters is how many calls run.
\* A free thread takes the next work item and runs process_stock up to the
\* membership test of line 79. The queue is FIFO and shutdown(wait=False)
\* only puts its wake-up item behind the work items already queued, so the
\* threads keep taking work items after the shutdown call.
MayTake_NotAfterShutdown == ~shutdown_called
MayTake == TRUE

Call ==
    /\ work_queue # <<>>
    /\ Cardinality(Busy) < max_workers
    /\ MayTake
    /\ LET i == Head(work_queue)
           t == task[i].ticker
       IN
       /\ work_queue' = Tail(work_queue)
       /\ IF AlreadyProcessed(t)
          THEN task' = [task EXCEPT ![i] =
                          [@ EXCEPT !.pc = "done", !.outcome = "skipped",
                                    !.result = SkippedResult(t),
                                    !.after_abort = shutdown_called]]
          ELSE task' = [task EXCEPT ![i] =
                          [@ EXCEPT !.pc = "fetch",
                                    !.after_abort = shutdown_called]]
    /\ UNCHANGED << ledgers, stored, mainOwned, nvars, rvars >>

\* get_stock_info(stock_ticker) and the normalization of lines 83-94, which
\* touch nothing shared: the provider returns a mapping or raises.
Fetch(i) ==
    /\ task[i].pc = "fetch"
    /\ \/ task' = [task EXCEPT ![i] =
                      [@ EXCEPT !.pc = "store", !.fetched = TRUE]]
       \/ \E e \in FetchErrors :
             task' = [task EXCEPT ![i] =
                        [@ EXCEPT !.pc = "writeU", !.fetched = TRUE, !.err = e]]
    /\ UNCHANGED << ledgers, work_queue, stored, mainOwned, nvars, rvars >>

\* vectorstore.add_documents([doc]) completes or raises.
AddDocuments(i) ==
    /\ task[i].pc = "store"
    /\ \/ /\ task' = [task EXCEPT ![i] =
                         [@ EXCEPT !.pc = "writeS", !.add_called = TRUE,
                                   !.added = TRUE]]
          /\ stored' = [stored EXCEPT ![task[i].ticker] = @ + 1]
       \/ /\ \E e \in StoreErrors :
                task' = [task EXCEPT ![i] =
                           [@ EXCEPT !.pc = "writeU", !.add_called = TRUE,
                                     !.err = e]]
          /\ UNCHANGED stored
    /\ UNCHANGED << ledgers, work_queue, mainOwned, nvars, rvars >>

\* with open(..., 'a') as f: f.write(line). The line waits in the file
\* object's buffer and reaches the file in one write when the with block
\* closes it; being opened for append, the write lands at the end of the file.
RecordSuccess_ListFirst(i) ==
    /\ task[i].pc = "writeS"
    /\ successful_tickers' = Append(successful_tickers, task[i].ticker)
    /\ task' = [task EXCEPT ![i] = [@ EXCEPT !.pc = "appendS"]]
    /\ UNCHANGED << successful_file, unsuccessful_file,
                    unsuccessful_tickers, work_queue, stored >>
    /\ UNCHANGED << mainOwned, nvars, rvars >>
RecordSuccess(i) ==
    /\ task[i].pc = "writeS"
    /\ successful_file' =
          FileAppend(successful_file, LedgerLine(task[i].ticker))
    /\ task' = [task EXCEPT ![i] = [@ EXCEPT !.pc = "appendS", !.lineS = TRUE]]
    /\ UNCHANGED << unsuccessful_file, successful_tickers,
                    unsuccessful_tickers, work_queue, stored >>
    /\ UNCHANGED << mainOwned, nvars, rvars >>

RecordFailure_Silent(i) ==
    /\ task[i].pc = "writeU"
    /\ task' = [task EXCEPT ![i] = [@ EXCEPT !.pc = "appendU"]]
    /\ UNCHANGED << ledgers, work_queue, stored >>
    /\ UNCHANGED << mainOwned, nvars, rvars >>
RecordFailure(i) ==
    /\ task[i].pc = "writeU"
    /\ unsuccessful_file' =
          FileAppend(unsuccessful_file, LedgerLine(task[i].ticker))
    /\ task' = [task EXCEPT ![i] = [@ EXCEPT !.pc = "appendU", !.lineU = TRUE]]
    /\ UNCHANGED << successful_file, successful_tickers,
                    unsuccessful_tickers, work_queue, stored >>
    /\ UNCHANGED << mainOwned, nvars, rvars >>

\* successful_tickers.append(stock_ticker); return the success message.
AppendSuccess(i) ==
    /\ task[i].pc = "appendS"
    /\ successful_tickers' = Append(successful_tickers, task[i].ticker)
    /\ task' = [task EXCEPT ![i] =
                   [@ EXCEPT !.pc = "done", !.outcome = "success",
                             !.result = SuccessResult(task[i].ticker),
                             !.memS = TRUE]]
    /\ UNCHANGED << successful_file, unsuccessful_file, unsuccessful_tickers,
                    work_queue, stored >>
    /\ UNCHANGED << mainOwned, nvars, rvars >>

\* unsuccessful_tickers.append(stock_ticker); return the error message.
AppendFailure(i) ==
    /\ task[i].pc = "appendU"
    /\ unsuccessful_tickers' = Append(unsuccessful_tickers, task[i].ticker)
    /\ task' = [task EXCEPT ![i] =
                   [@ EXCEPT !.pc = "done", !.outcome = "error",
                             !.result = ErrorResult(task[i].ticker, task[i].err),
                             !.memU = TRUE]]
    /\ UNCHANGED << successful_file, unsuccessful_file, successful_tickers,
                    work_queue, stored >>
    /\ UNCHANGED << mainOwned, nvars, rvars >>

NextIndexer ==
    \/ LoadLedgers
    \/ MainBlock
    \/ Submit
    \/ SubmitDone
    \/ Collect
    \/ ReturnNormally
    \/ ExitOnError
    \/ Restart
    \/ Call
    \/ \E i \in DOMAIN task : Fetch(i)
    \/ \E i \in DOMAIN task : AddDocuments(i)
    \/ \E i \in DOMAIN task : RecordSuccess(i)
    \/ \E i \in DOMAIN task : AppendSuccess(i)
    \/ \E i \in DOMAIN task : RecordFailure(i)
    \/ \E i \in DOMAIN task : AppendFailure(i)

\* ------------------------------------------------------------ normalization
\* A Python value: its type, its text (the string itself, or what str() gives
\* for a number, a bool or a nested object) and, for a list, its items.
Val(kind, text) == [kind |-> kind, text |-> text, items |-> <<>>]
ListVal(items) == [kind |-> "list", text |-> "", items |-> items]
AbsentV == Val("absent", "")
NoneV == Val("none", "None")

ScalarKinds == {"str", "int", "float", "bool"}

ItemValues == { NoneV, Val("str", "Acme"), Val("int", "7"),
                Val("dict", "{'a': 1}"), ListVal(<<>>) }

PlainValues == { NoneV,
                 Val("str", ""), Val("str", "Acme"),
                 Val("int", "0"), Val("int", "7"),
                 Val("float", "0.0"), Val("float", "1.5"),
                 Val("bool", "False"), Val("bool", "True"),
                 Val("dict", "{}"), Val("dict", "{'a': 1}") }

ListValues == { ListVal(it) : it \in UNION { [1..n -> ItemValues] : n \in 0..MaxListLen } }

Values == PlainValues \cup ListValues

ProviderKeys == { "symbol", "longName", "longBusinessSummary", "city",
                  "state", "country", "industry", "sector" }

FieldNames == { "Ticker", "Name", "Business Summary", "City", "State",
                "Country", "Industry", "Sector" }

\* the provider attribute each field of the properties dict is read from
KeyOf(field) ==
    CASE field = "Ticker" -> "symbol"
      [] field = "Name" -> "longName"
      [] field = "Business Summary" -> "longBusinessSummary"
      [] field = "City" -> "city"
      [] field = "State" -> "state"
      [] field = "Country" -> "country"
      [] field = "Industry" -> "industry"
      [] field = "Sector" -> "sector"

\* the sets of at most MaxAttrs attributes a provider answer holds
AttrSets == { K \in SUBSET ProviderKeys : Cardinality(K) <= MaxAttrs }

\* bool(value)
Falsy(v) ==
    \/ v.kind \in {"absent", "none"}
    \/ v.kind = "str" /\ v.text = ""
    \/ v.kind = "int" /\ v.text = "0"
    \/ v.kind = "float" /\ v.text = "0.0"
    \/ v.kind = "bool" /\ v.text = "False"
    \/ v.kind = "dict" /\ v.text = "{}"
    \/ v.kind = "list" /\ v.items = <<>>

\* str(value)
PyStr(v) == IF v.kind = "list" THEN Val("str", "[...]") ELSE Val("str", v.text)

\* stock_info.get(key, default): the default only stands in for a missing key
DictGet(d, key, default) ==
    IF d[key].kind = "absent" THEN Val("str", default) ELSE d[key]

\* stock_info.get(key) or default
DictGetOr(d, key, default) ==
    LET v == IF d[key].kind = "absent" THEN NoneV ELSE d[key]
    IN IF Falsy(v) THEN Val("str", default) ELSE v

get_stock_info(stock_info) ==
    [field \in FieldNames |->
        IF field = "Business Summary"
        THEN DictGetOr(stock_info, KeyOf(field), "No data available")
        ELSE DictGet(stock_info, KeyOf(field), "Information not available")]

\* one pass of the loop body of lines 88-94
NormalizeValue_KeepsObjects(value) ==
    IF value.kind = "none" THEN Val("str", "No data available")
    ELSE IF value.kind = "list"
         THEN ListVal([i \in 1..Len(value.items) |-> PyStr(value.items[i])])
         ELSE value
NormalizeValue(value) ==
    IF value.kind = "none" THEN Val("str", "No data available")
    ELSE IF value.kind = "list"
         THEN ListVal([i \in 1..Len(value.items) |-> PyStr(value.items[i])])
         ELSE IF value.kind \notin ScalarKinds THEN PyStr(value)
              ELSE value

\* lines 83-85
Description(data) ==
    IF data["Business Summary"].kind = "str"
    THEN data["Business Summary"].text
    ELSE "No summary available"

NormalizeIdle ==
    /\ info = [k \in ProviderKeys |-> AbsentV]
    /\ stock_data = <<>>
    /\ stock_description = ""
    /\ npc = "idle"

InitNormalize ==
    /\ \E K \in AttrSets : \E g \in [K -> Values] :
          info = [k \in ProviderKeys |-> IF k \in K THEN g[k] ELSE AbsentV]
    /\ stock_data = <<>>
    /\ stock_description = ""
    /\ npc = "start"

\* line 82: stock_data = get_stock_info(stock_ticker), the provider answering
\* with the mapping info
GetStockInfo ==
    /\ npc = "start"
    /\ stock_data' = get_stock_info(info)
    /\ npc' = "fetched"
    /\ UNCHANGED << info, stock_description >>
    /\ UNCHANGED << ivars, rvars >>

\* lines 83-97: the description, the loop over stock_data.items() and the
\* Document built from both
NormalizeMetadata ==
    /\ npc = "fetched"
    /\ stock_description' = Description(stock_data)
    /\ stock_data' = [field \in DOMAIN stock_data |->
                        NormalizeValue(stock_data[field])]
    /\ npc' = "normalized"
    /\ UNCHANGED info
    /\ UNCHANGED << ivars, rvars >>

NextNormalize ==
    \/ GetStockInfo
    \/ NormalizeMetadata

\* ------------------------------------------------------------ query service
Queries == { "", "oil company" }

\* the documents of the index: page_content and metadata
Docs == { [page_content |-> d, metadata |-> [Ticker |-> d]] : d \in 1..MaxMatches }

\* what the index can rank for a query: documents without repetition
Rankings ==
    UNION { { r \in [1..n -> Docs] : \A i, j \in 1..n : i # j => r[i] # r[j] } :
            n \in 0..MaxMatches }

\* class SearchRequest: k: int = 5
DefaultK == 5

\* request bodies: query and, optionally, k
Bodies ==
    { [query |-> q, has_k |-> FALSE, k |-> 0] : q \in Queries }
    \cup { [query |-> q, has_k |-> TRUE, k |-> n] : q \in Queries, n \in 0..MaxK }

SearchRequest(body) ==
    [query |-> body.query, k |-> IF body.has_k THEN body.k ELSE DefaultK]

Min(a, b) == IF a <= b THEN a ELSE b

\* vectorstore.similarity_search(query, k=k) when it answers: the k best
\* matches of the index, best first
similarity_search(matches, k) == SubSeq(matches, 1, Min(k, Len(matches)))

\* `not search.query`
QueryMissing_Never(request) == FALSE
QueryMissing(request) == request.query = ""

\* the k handed to the gateway
SearchK_Default(request) == DefaultK
SearchK(request) == request.k

\* [SearchResult(text=r.page_content, metadata=r.metadata) for r in results]
ToResults(results) ==
    [i \in 1..Len(results) |->
        [text |-> results[i].page_content, metadata |-> results[i].metadata]]

NoResponse == [status |-> 0, detail |-> "", query |-> "", results |-> <<>>]

ResearchIdle ==
    /\ ranked = <<>>
    /\ search = [query |-> "", k |-> 0]
    /\ rpc = "idle"
    /\ response = NoResponse
    /\ gateway_calls = 0
    /\ served = 0
    /\ exc = ""
    /\ failures = 0

\* POST /research arrives: the body becomes a SearchRequest. ranked is what
\* the index holds for the query while the request is handled.
Receive ==
    /\ rpc = "idle"
    /\ served < MaxRequests
    /\ \E body \in Bodies, r \in Rankings :
          /\ search' = SearchRequest(body)
          /\ ranked' = r
    /\ rpc' = "validate"
    /\ UNCHANGED << response, gateway_calls, served, exc, failures >>
    /\ UNCHANGED << ivars, nvars >>

\* lines 110-111
Validate ==
    /\ rpc = "validate"
    /\ IF QueryMissing(search)
       THEN /\ response' = [NoResponse EXCEPT
                              !.status = 400,
                              !.detail = "Query parameter is required."]
            /\ rpc' = "responded"
            /\ served' = served + 1
       ELSE /\ rpc' = "search"
            /\ UNCHANGED << response, served >>
    /\ UNCHANGED << ranked, search, gateway_calls, exc, failures >>
    /\ UNCHANGED << ivars, nvars >>

\* lines 112-117: the gateway answers
SearchReturns ==
    /\ rpc = "search"
    /\ gateway_calls' = gateway_calls + 1
    /\ LET results == similarity_search(ranked, SearchK(search))
           json_results == ToResults(results)
       IN response' = [NoResponse EXCEPT !.status = 200,
                                         !.query = search.query,
                                         !.results = json_results]
    /\ rpc' = "responded"
    /\ served' = served + 1
    /\ UNCHANGED << ranked, search, exc, failures >>
    /\ UNCHANGED << ivars, nvars >>

\* str(e) of what the try block of lines 112-117 can raise: the gateway call
\* fails, or SearchResult(...) rejects a match of the gateway
TryErrors == { "gateway unreachable", "validation error for SearchResult" }

\* line 119: HTTPException(status_code=500, detail="Internal Server Error")
ServerError_Exposing(e) ==
    [NoResponse EXCEPT !.status = 500, !.detail = e]
ServerError(e) ==
    [NoResponse EXCEPT !.status = 500, !.detail = "Internal Server Error"]

\* lines 113-116, 118-119: the gateway call or the building of the results
\* raises; the except clause answers for it
SearchRaises ==
    /\ rpc = "search"
    /\ gateway_calls' = gateway_calls + 1
    /\ \E e \in TryErrors :
          /\ exc' = e
          /\ response' = ServerError(e)
    /\ failures' = failures + 1
    /\ rpc' = "responded"
    /\ served' = served + 1
    /\ UNCHANGED << ranked, search >>
    /\ UNCHANGED << ivars, nvars >>

\* The response has gone out; nothing of the request stays behind.
Respond ==
    /\ rpc = "responded"
    /\ rpc' = "idle"
    /\ ranked' = <<>>
    /\ search' = [query |-> "", k |-> 0]
    /\ response' = NoResponse
    /\ gateway_calls' = 0
    /\ exc' = ""
    /\ UNCHANGED << served, failures >>
    /\ UNCHANGED << ivars, nvars >>

NextResearch ==
    \/ Receive
    \/ Validate
    \/ SearchReturns
    \/ SearchRaises
    \/ Respond

\* ---------------------------------------------------------- specifications
Init == InitIndexer /\ NormalizeIdle /\ ResearchIdle
Next == NextIndexer
Spec == Init /\ [][Next]_vars

\* The indexer under its scheduling: the main thread keeps running, and so do
\* the pool's threads, every provider fetch and every store call returning or
\* raising in the end. When the process is started, and started again, is up
\* to the operator.
MainThread ==
    \/ Submit
    \/ SubmitDone
    \/ Collect
    \/ ReturnNormally
    \/ ExitOnError
WorkerThreads ==
    \/ Call
    \/ \E i \in DOMAIN task : Fetch(i)
    \/ \E i \in DOMAIN task : AddDocuments(i)
    \/ \E i \in DOMAIN task : RecordSuccess(i)
    \/ \E i \in DOMAIN task : AppendSuccess(i)
    \/ \E i \in DOMAIN task : RecordFailure(i)
    \/ \E i \in DOMAIN task : AppendFailure(i)
Fairness == WF_vars(MainThread) /\ WF_vars(WorkerThreads)
SpecLive == Init /\ [][Next]_vars /\ Fairness

InitN == InitIndexer /\ InitNormalize /\ ResearchIdle
SpecNormalize == InitN /\ [][NextNormalize]_vars

InitR == InitIndexer /\ NormalizeIdle /\ ResearchIdle
SpecResearch == InitR /\ [][NextResearch]_vars

\* ================================================================= claims
\* the identifiers a ledger file holds, as load_tickers reads them
Loaded(content) == load_tickers(content)
BootS == Range(Loaded(file_at_boot.S))
BootU == Range(Loaded(file_at_boot.U))
BootSList == Loaded(file_at_boot.S)
BootUList == Loaded(file_at_boot.U)

RECURSIVE JoinLines(_)
JoinLines(ts) ==
    IF ts = <<>> THEN <<>> ELSE LedgerLine(Head(ts)) \o JoinLines(Tail(ts))

\* s = p followed by Len(s) - Len(p) further entries
IsPrefix(p, s) == Len(p) <= Len(s) /\ SubSeq(s, 1, Len(p)) = p
Suffix(p, s) == SubSeq(s, Len(p) + 1, Len(s))

\* the process_stock call of task i raised in get_stock_info or add_documents
Raised(i) == task[i].err # ""

\* C1: a process_stock call for an identifier that is in the in-memory
\* successful ledger returns "Already processed ..." at once: the call is over
\* in the step that starts it, no fetch and no add_documents has happened for
\* it, and neither ledger file nor in-memory ledger has changed.
C1_SkipLeavesEverythingAlone ==
    [][ \A i \in DOMAIN task :
          ( /\ i \in DOMAIN task'
            /\ task[i].pc = "queued"
            /\ task'[i].pc # "queued"
            /\ task[i].ticker \in Range(successful_tickers) )
          => /\ task'[i].pc = "done"
             /\ task'[i].outcome = "skipped"
             /\ task'[i].result = SkippedResult(task[i].ticker)
             /\ ~task'[i].fetched
             /\ ~task'[i].add_called
             /\ UNCHANGED << successful_file, unsuccessful_file,
                             successful_tickers, unsuccessful_tickers, stored >>
      ]_vars

\* C1 witness: a restarted run has skipped an identifier that it loaded from
\* successful_tickers.txt.
C1_Witness ==
    /\ run > 1
    /\ \E i \in DOMAIN task :
          /\ task[i].outcome = "skipped"
          /\ task[i].ticker \in BootS

\* C2 (as claimed): for a list of pairwise distinct identifiers that is longer
\* than max_workers, a task that was still queued when the fail-fast abort ran
\* executor.shutdown(wait=False) is never started: it is not fetched, not
\* stored and not written to a ledger.
C2_NothingStartsAfterAbort ==
    Len(tickers) > max_workers /\ ~HasDuplicates(tickers) =>
        \A i \in DOMAIN task :
            task[i].after_abort =>
                /\ ~task[i].fetched
                /\ ~task[i].add_called
                /\ ~task[i].lineS
                /\ ~task[i].lineU

\* C3: when the process has exited, every process_stock call of the run that
\* raised in the fetch or in the store has put exactly one line into
\* unsuccessful_tickers.txt and one entry into the in-memory list, and nothing
\* else has: per identifier, the new entries are as many as the raising calls.
C3_FailureRecordedBeforeExit ==
    mainpc = "exited" =>
        /\ IsPrefix(file_at_boot.U, unsuccessful_file)
        /\ unsuccessful_file = JoinLines(Loaded(unsuccessful_file))
        /\ IsPrefix(Loaded(file_at_boot.U), unsuccessful_tickers)
        /\ \A t \in TickerUniverse :
              LET raising == { i \in DOMAIN task :
                                 task[i].ticker = t /\ Raised(i) }
              IN
              /\ Count(Loaded(unsuccessful_file), t)
                    = Count(Loaded(file_at_boot.U), t) + Cardinality(raising)
              /\ Count(unsuccessful_tickers, t)
                    = Count(Loaded(file_at_boot.U), t) + Cardinality(raising)

\* C3 witness: the process has exited with status 1 and a call whose result
\* the main loop never looked at had raised.
C3_Witness ==
    /\ mainpc = "exited"
    /\ exit_status = 1
    /\ \E i \in DOMAIN task : Raised(i) /\ i \notin seen

\* C4: in a restarted run every started call for an identifier that
\* successful_tickers.txt held at the restart is skipped, and a call for an
\* identifier that only unsuccessful_tickers.txt held is skipped only when
\* another call of this run has stored that identifier meanwhile: otherwise it
\* goes to the provider fetch and, when the fetch returns, to add_documents.
C4_RestartSkipsOnlyStored ==
    run > 1 =>
        \A i \in DOMAIN task :
            task[i].pc # "queued" =>
                LET t == task[i].ticker IN
                /\ t \in BootS => task[i].outcome = "skipped"
                /\ t \in BootU \ BootS =>
                      /\ task[i].outcome = "skipped" =>
                            \E j \in DOMAIN task \ {i} :
                                task[j].ticker = t /\ task[j].memS
                      /\ task[i].outcome # "skipped" /\ task[i].pc # "fetch"
                            => task[i].fetched
                      /\ task[i].outcome # "skipped" /\ task[i].fetched
                            /\ ~Raised(i) /\ task[i].pc # "store"
                            => task[i].add_called

\* C4 witness: the run before ended by the fail-fast abort, and in this run an
\* identifier of the successful file was skipped while an identifier that only
\* the unsuccessful file held was fetched and stored.
C4_Witness ==
    /\ run > 1
    /\ aborted_prev
    /\ \E i \in DOMAIN task :
          /\ task[i].ticker \in BootU \ BootS
          /\ task[i].fetched
          /\ task[i].added

\* C5 (as claimed): add_documents completes at most once per identifier, over
\* all runs.
C5_StoredAtMostOnce ==
    \A t \in TickerUniverse : stored[t] <= 1

\* C5 (amended): as long as no run was given a list that names an identifier
\* twice, add_documents completes at most once per identifier, over all runs.
C5_StoredAtMostOnceIfDistinct ==
    ~dup_ever => \A t \in TickerUniverse : stored[t] <= 1

\* C5 witness: a restarted run, after an aborted one, is past the start of a
\* call for an identifier that an earlier run had stored.
C5_Witness ==
    /\ ~dup_ever
    /\ run > 1
    /\ aborted_prev
    /\ \E i \in DOMAIN task :
          /\ task[i].pc # "queued"
          /\ stored[task[i].ticker] = 1
          /\ task[i].ticker \in BootS

\* C6: when a run whose identifiers are pairwise distinct has ended with
\* every call successful, successful_tickers.txt is its content at the start
\* followed by exactly one complete line per identifier, and the in-memory
\* list is the loaded list followed by exactly one entry per identifier.
C6_AllSuccessfulLinesLand ==
    ( /\ mainpc = "exited"
      /\ tickers # <<>>
      /\ ~HasDuplicates(tickers)
      /\ \A i \in DOMAIN task : task[i].outcome = "success" )
    => LET new == Suffix(Loaded(file_at_boot.S), Loaded(successful_file))
           mem == Suffix(Loaded(file_at_boot.S), successful_tickers)
       IN
       /\ IsPrefix(file_at_boot.S, successful_file)
       /\ successful_file = JoinLines(Loaded(successful_file))
       /\ Len(new) = Len(tickers)
       /\ Range(new) = Range(tickers)
       /\ IsPrefix(Loaded(file_at_boot.S), successful_tickers)
       /\ Len(mem) = Len(tickers)
       /\ Range(mem) = Range(tickers)

\* C6 witness: a pool of two workers has stored two distinct identifiers and their
\* lines reached the file in the opposite order of their list appends.
C6_Witness ==
    /\ mainpc = "exited"
    /\ max_workers = 2
    /\ Len(tickers) = 2
    /\ ~HasDuplicates(tickers)
    /\ \A i \in DOMAIN task : task[i].outcome = "success"
    /\ Suffix(Loaded(file_at_boot.S), Loaded(successful_file))
         # Suffix(Loaded(file_at_boot.S), successful_tickers)

AcceptableList(v) ==
    v.kind = "list" /\ \A i \in 1..Len(v.items) : v.items[i].kind = "str"

\* C7 (as claimed): the normalized metadata holds the eight fields and every
\* value is a str, an int, a float or a bool.
C7_OnlyScalars ==
    npc = "normalized" =>
        /\ DOMAIN stock_data = FieldNames
        /\ \A field \in FieldNames : stock_data[field].kind \in ScalarKinds

\* C7 (amended): the normalized metadata holds the eight fields and every
\* value is a str, an int, a float, a bool, or a list whose items are all
\* str; the page content is a str the provider gave or the fixed fallback.
C7_ScalarsOrStringLists ==
    npc = "normalized" =>
        /\ DOMAIN stock_data = FieldNames
        /\ \A field \in FieldNames :
              \/ stock_data[field].kind \in ScalarKinds
              \/ AcceptableList(stock_data[field])
        /\ \A field \in FieldNames :
              info[KeyOf(field)].kind \in {"absent", "none"}
                  => stock_data[field].kind = "str"

\* C7 witness: the provider gave a list with an item that is no str, and the
\* normalized field is the list of the items' strings.
C7_Witness ==
    /\ npc = "normalized"
    /\ \E field \in FieldNames :
          /\ info[KeyOf(field)].kind = "list"
          /\ info[KeyOf(field)].items # <<>>
          /\ info[KeyOf(field)].items[1].kind # "str"
          /\ AcceptableList(stock_data[field])
          /\ stock_data[field].items # <<>>

\* C8: once the catalog request of a run has been answered with a status
\* other than 200, the process has ended with status 0, company_tickers.json
\* is what it was, no identifier has been submitted, fetched or stored, and
\* both ledger files and both in-memory ledgers are as loaded.
C8_Non200DoesNothing ==
    http_status \notin {0, 200} =>
        /\ mainpc = "exited"
        /\ exit_status = 0
        /\ catalog_file = file_at_boot.C
        /\ tickers = <<>>
        /\ submitted = 0
        /\ task = <<>>
        /\ successful_file = file_at_boot.S
        /\ unsuccessful_file = file_at_boot.U
        /\ successful_tickers = Loaded(file_at_boot.S)
        /\ unsuccessful_tickers = Loaded(file_at_boot.U)

\* C8 witness: a run was answered 404 while both ledgers were non-empty.
C8_Witness ==
    /\ http_status = 404
    /\ mainpc = "exited"
    /\ successful_tickers # <<>>
    /\ unsuccessful_tickers # <<>>

\* C9: a request with the empty query never reaches the gateway and is
\* answered 400, whatever its k.
C9_EmptyQueryRejected ==
    rpc # "idle" /\ search.query = "" =>
        /\ gateway_calls = 0
        /\ rpc # "search"
        /\ rpc = "responded" =>
              /\ response.status = 400
              /\ response.results = <<>>

\* C9 witness: a request with the empty query and k = 3 has been answered.
C9_Witness ==
    /\ rpc = "responded"
    /\ search.query = ""
    /\ search.k = 3
    /\ response.status = 400

\* C10: a request with a non-empty query that the gateway answered is
\* answered 200 with the query echoed and, as results, the text and metadata
\* of the first k matches of the gateway in the gateway's order (all of them
\* when the gateway holds at most k).
C10_TopKInOrder ==
    rpc = "responded" /\ search.query # "" /\ response.status # 500 =>
        /\ response.status = 200
        /\ response.query = search.query
        /\ gateway_calls = 1
        /\ Len(response.results) = Min(search.k, Len(ranked))
        /\ \A i \in 1..Len(response.results) :
              /\ response.results[i].text = ranked[i].page_content
              /\ response.results[i].metadata = ranked[i].metadata

\* C10 witness: the gateway held 5 matches, the request asked for k = 3 and
\* was answered with 3 results.
C10_Witness ==
    /\ rpc = "responded"
    /\ search = [query |-> "oil company", k |-> 3]
    /\ Len(ranked) = 5
    /\ response.status = 200
    /\ Len(response.results) = 3

\* C11: a request with a non-empty query whose gateway call or result
\* building raised is answered 500 with the fixed detail "Internal Server
\* Error", which is not the exception's message, and with no results; it has
\* touched nothing outside the request, so a request handled after failed ones
\* is served from the gateway exactly as by a service that never failed.
C11_FailureIsRequestScoped ==
    /\ rpc = "responded" /\ exc # "" =>
          /\ search.query # ""
          /\ response.status = 500
          /\ response.detail = "Internal Server Error"
          /\ response.detail # exc
          /\ response.query = ""
          /\ response.results = <<>>
    /\ rpc = "idle" =>
          /\ ranked = <<>>
          /\ response = NoResponse
          /\ gateway_calls = 0
          /\ exc = ""
    /\ failures > 0 /\ rpc = "responded" /\ exc = "" /\ search.query # "" =>
          /\ response.status = 200
          /\ response.query = search.query
          /\ response.results =
                ToResults(SubSeq(ranked, 1, Min(search.k, Len(ranked))))
    /\ failures > 0 /\ rpc = "responded" /\ search.query = "" =>
          response.status = 400

\* C11 witness: after a request that failed in the try block, the next
\* request has been answered 200 with results.
C11_Witness ==
    /\ failures = 1
    /\ served = 2
    /\ rpc = "responded"
    /\ response.status = 200
    /\ response.results # <<>>

\* C12: a run of parallel_process_stocks that has ended has ended with exit
\* status 1 if and only if some call returned an error outcome; when it ended
\* with status 0 every identifier of the list, whatever its text, has an
\* outcome of success or skipped; and the abort is under way only after the
\* main loop has seen an error outcome.
C12_ExitOneIffError ==
    /\ mainpc = "exited" /\ tickers # <<>> =>
          /\ exit_status \in {0, 1}
          /\ exit_status = 1 <=>
                \E i \in DOMAIN task : task[i].outcome = "error"
          /\ exit_status = 0 =>
                /\ Len(task) = Len(tickers)
                /\ \A i \in DOMAIN task :
                      /\ task[i].pc = "done"
                      /\ task[i].outcome \in {"success", "skipped"}
    /\ mainpc = "unwind" =>
          \E i \in seen : task[i].outcome = "error"
    /\ shutdown_called => mainpc \in {"unwind", "exited"}

\* C12 witness: a run has returned normally after storing the identifier
\* "ERROR" and skipping another identifier.
C12_Witness ==
    /\ mainpc = "exited"
    /\ exit_status = 0
    /\ \E i, j \in DOMAIN task :
          /\ task[i].ticker = <<"ERROR">>
          /\ task[i].outcome = "success"
          /\ task[j].outcome = "skipped"

\* the calls of this run for identifier t that have done the given step
CallsWith(t, step) ==
    { i \in DOMAIN task : task[i].ticker = t /\ task[i][step] }

\* C13: a finished call that was not skipped and did not raise has stored its
\* document, appended its identifier to the successful ledger (file and list)
\* only, and returned the success message; one that raised has appended its
\* identifier to the unsuccessful ledger (file and list) only and returned an
\* error message that ends with the exception's message. A skipped call has
\* appended nothing. Each ledger has grown in this run by exactly one entry per
\* call that appended to it.
C13_OneAppendMatchingOutcome ==
    /\ \A i \in DOMAIN task :
          /\ task[i].pc = "done" /\ task[i].outcome # "skipped" /\ ~Raised(i) =>
                /\ task[i].fetched /\ task[i].added
                /\ task[i].lineS /\ task[i].memS
                /\ ~task[i].lineU /\ ~task[i].memU
                /\ task[i].outcome = "success"
                /\ task[i].result =
                      <<"Processed ">> \o task[i].ticker \o <<" successfully">>
          /\ task[i].pc = "done" /\ task[i].outcome # "skipped" /\ Raised(i) =>
                /\ ~task[i].added
                /\ task[i].lineU /\ task[i].memU
                /\ ~task[i].lineS /\ ~task[i].memS
                /\ task[i].outcome = "error"
                /\ task[i].result[1] = "ERROR"
                /\ SubSeq(task[i].result, 3, 2 + Len(task[i].ticker))
                      = task[i].ticker
                /\ task[i].result[Len(task[i].result)] = task[i].err
          /\ task[i].outcome = "skipped" =>
                /\ ~task[i].lineS /\ ~task[i].memS
                /\ ~task[i].lineU /\ ~task[i].memU
          /\ ~(task[i].lineS /\ task[i].lineU)
    /\ mainpc # "boot" =>
          \A t \in TickerUniverse :
              /\ Count(Loaded(successful_file), t)
                    = Count(BootSList, t) + Cardinality(CallsWith(t, "lineS"))
              /\ Count(successful_tickers, t)
                    = Count(BootSList, t) + Cardinality(CallsWith(t, "memS"))
              /\ Count(Loaded(unsuccessful_file), t)
                    = Count(BootUList, t) + Cardinality(CallsWith(t, "lineU"))
              /\ Count(unsuccessful_tickers, t)
                    = Count(BootUList, t) + Cardinality(CallsWith(t, "memU"))

\* C13 witness: in one run a call whose fetch returned and whose store raised
\* has finished, and so has a call that stored its document.
C13_Witness ==
    \E i, j \in DOMAIN task :
        /\ task[i].pc = "done" /\ task[i].err = "store failed"
        /\ task[j].pc = "done" /\ task[j].outcome = "success"

\* the identifiers this run has appended to a ledger file
NewInFile(file, boot) ==
    { t \in TickerUniverse : Count(Loaded(file), t) > Count(Loaded(boot), t) }

\* C14 (as claimed): within one run no identifier is appended both to
\* successful_tickers.txt and to unsuccessful_tickers.txt.
C14_NeverBothInOneRun ==
    mainpc # "boot" =>
        NewInFile(successful_file, file_at_boot.S)
            \cap NewInFile(unsuccessful_file, file_at_boot.U) = {}

\* C14 (amended): within one run whose list names no identifier twice, no
\* identifier is appended both to successful_tickers.txt and to
\* unsuccessful_tickers.txt, and no call appends to both.
C14_NeverBothInOneRunIfDistinct ==
    mainpc # "boot" /\ ~HasDuplicates(tickers) =>
        /\ NewInFile(successful_file, file_at_boot.S)
              \cap NewInFile(unsuccessful_file, file_at_boot.U) = {}
        /\ \A i, j \in DOMAIN task :
              task[i].lineS /\ task[j].lineU
                  => task[i].ticker # task[j].ticker

\* C14 witness: a run over distinct identifiers has appended to the
\* successful file an identifier that an earlier run had left in the
\* unsuccessful file only, so that both files hold it now.
C14_Witness ==
    /\ run > 1
    /\ ~HasDuplicates(tickers)
    /\ \E t \in BootU \ BootS :
          /\ t \in NewInFile(successful_file, file_at_boot.S)
          /\ t \in Range(Loaded(unsuccessful_file))

\* s holds every entry at least as often as p does
SubBag(p, s) == \A x \in Range(p) : Count(p, x) <= Count(s, x)

\* the calls that have written their line and not yet appended to the list
BetweenFileAndList(pcs) == { i \in DOMAIN task : task[i].pc \in pcs }

\* C15: in every state of a run, from the loading of the ledgers at module
\* import on, every entry of an in-memory ledger is a
\* line of its file, at least as often; the file is ahead of the list by
\* exactly the identifiers of the calls that have written their line and not
\* yet appended to the list, so with no call between the two steps list and
\* file hold the same identifiers, each as often.
C15_ListMirrorsFile ==
    mainpc # "boot" =>
        /\ SubBag(successful_tickers, Loaded(successful_file))
        /\ SubBag(unsuccessful_tickers, Loaded(unsuccessful_file))
        /\ \A t \in TickerUniverse :
              /\ Count(Loaded(successful_file), t)
                    = Count(successful_tickers, t)
                      + Cardinality({ i \in BetweenFileAndList({"appendS"}) :
                                        task[i].ticker = t })
              /\ Count(Loaded(unsuccessful_file), t)
                    = Count(unsuccessful_tickers, t)
                      + Cardinality({ i \in BetweenFileAndList({"appendU"}) :
                                        task[i].ticker = t })
        /\ BetweenFileAndList({"appendS"}) = {} =>
              /\ Range(successful_tickers) = Range(Loaded(successful_file))
              /\ Len(successful_tickers) = Len(Loaded(successful_file))
        /\ BetweenFileAndList({"appendU"}) = {} =>
              /\ Range(unsuccessful_tickers) = Range(Loaded(unsuccessful_file))
              /\ Len(unsuccessful_tickers) = Len(Loaded(unsuccessful_file))

\* C15 witness: in a restarted run that loaded a non-empty successful ledger,
\* a call has written its line to successful_tickers.txt and has not yet
\* appended to the list, while another call has completed both steps on the
\* unsuccessful ledger.
C15_Witness ==
    /\ run > 1
    /\ BootSList # <<>>
    /\ \E i \in DOMAIN task :
          /\ task[i].pc = "appendS"
          /\ task[i].ticker \in Range(Loaded(successful_file))
          /\ task[i].ticker \notin Range(successful_tickers)
    /\ Len(unsuccessful_tickers) > Len(BootUList)
    /\ BetweenFileAndList({"appendU"}) = {}

\* C16: a started parallel_process_stocks ends, by return or by process exit;
\* when it has returned normally there is one call per entry of the list, in
\* the list's order, each finished as skipped or success; and an outcome, once
\* reached, never changes within the run.
C16_Terminates ==
    /\ (mainpc = "submit") ~> (mainpc = "exited")
    /\ [](mainpc = "exited" /\ exit_status = 0 /\ tickers # <<>> =>
            /\ Len(task) = Len(tickers)
            /\ \A i \in DOMAIN task :
                  /\ task[i].ticker = tickers[i]
                  /\ task[i].pc = "done"
                  /\ task[i].outcome \in {"skipped", "success"})
    /\ [][ \A i \in DOMAIN task :
              task[i].outcome # "none" /\ run' = run =>
                  /\ i \in DOMAIN task'
                  /\ task'[i].outcome = task[i].outcome
                  /\ task'[i].pc = "done" ]_vars

\* C16 witness: a run with a pool of one worker and a list of two identifiers
\* has returned normally, one call skipped and one successful.
C16_Witness ==
    /\ mainpc = "exited"
    /\ exit_status = 0
    /\ max_workers = 1
    /\ Len(tickers) = 2
    /\ \E i, j \in DOMAIN task :
          /\ task[i].outcome = "skipped"
          /\ task[j].outcome = "success"
          /\ task[j].added

====
